---- MODULE Spec2Model ----
(***************************************************************************)
(* Model of src/src/abf_batch_plot.py: the batch loop of main, the steps   *)
(* of plot_one_abf, low_pass_filter, get_sample_rate and build_filename.   *)
(* Strings are sequences of one-character strings.  Frequencies are        *)
(* integers in Hz; the Nyquist frequency 0.5 * fs is kept exact by         *)
(* carrying it in tenths of a Hz (5 * fs) and by comparing 2 * cutoff with *)
(* fs.                                                                     *)
(***************************************************************************)
EXTENDS Integers, Sequences, FiniteSets, TLC

\* ---------------------------------------------------------------- bounds
\* longest batch range explored by the batch specification
MaxSpan == 3
\* indices beyond the four-digit range explored by the file-name specification
NameExtra == 3
\* largest sampling rate / cutoff / extra sweep length of the filter specification
MaxRate == 6
MaxCutoff == 4
LenExtra == 2

\* ------------------------------------------------------- program constants
\* width of the zero-padded index field, "{number:04d}"
Width == 4
\* default filter order of low_pass_filter
Order == 4
\* --start of the example batch of the documentation ("e.g., 77")
StartIndex == 77

RECURSIVE Pow10(_)
Pow10(k) == IF k <= 0 THEN 1 ELSE 10 * Pow10(k - 1)

\* ------------------------------------------------------------ formatting
DigitChars == <<"0", "1", "2", "3", "4", "5", "6", "7", "8", "9">>

DigitChar(d) == DigitChars[d + 1]

RECURSIVE Digits(_)
\* decimal digits of a natural number, most significant first
Digits(m) == IF m < 10 THEN <<DigitChar(m)>>
             ELSE Digits(m \div 10) \o <<DigitChar(m % 10)>>

RECURSIVE Zeros(_)
Zeros(k) == IF k <= 0 THEN <<>> ELSE <<"0">> \o Zeros(k - 1)

\* Python's format(number, "0{w}d"): sign first, then zero fill up to the
\* minimum width w (the sign counts in the width), never truncating
FormatZeroPadded(number, w) ==
    LET sign == IF number < 0 THEN <<"-">> ELSE <<>>
        ds   == Digits(IF number < 0 THEN 0 - number ELSE number)
    IN  sign \o Zeros(w - Len(sign) - Len(ds)) \o ds

\* a field one character narrower than documented ("{number:03d}")
Format03d(number) == FormatZeroPadded(number, Width - 1)

\* the replacement field of line 39, "{number:04d}"
Format04d(number) == FormatZeroPadded(number, Width)

Suffix == <<".", "a", "b", "f">>

build_filename(prefix_date, number) ==
    prefix_date \o <<"_">> \o Format04d(number) \o Suffix

\* value of a digit character, 10 for a character that is no digit
DigitVal(c) == IF \E d \in 0..9 : DigitChar(d) = c
               THEN CHOOSE d \in 0..9 : DigitChar(d) = c ELSE 10

RECURSIVE DigitsValue(_)
DigitsValue(s) == IF Len(s) = 0 THEN 0
                  ELSE 10 * DigitsValue(SubSeq(s, 1, Len(s) - 1)) + DigitVal(s[Len(s)])

\* --date-prefix values explored (the default prefix shortened, and one
\* holding a dot and a digit)
Prefixes == { <<"2", "4", "_", "0", "2">>, <<"a", ".", "1">> }

\* ------------------------------------------------------------- recordings
\* padlen of scipy.signal.filtfilt for the default padtype: three times the
\* longer coefficient vector, and butter(order, ...) returns order + 1
\* coefficients in each of b and a
PadLen == 3 * (Order + 1)

Samples(len) == [i \in 1..len |-> 0]

\* what pyabf.ABF finds at a path: whether the file exists, whether it loads,
\* which sample-rate attributes the loaded object has, its sweeps
Absent  == [present |-> FALSE, loads |-> FALSE, attrs |-> {},
            sampleRateHz |-> 0, dataRate |-> 0, sweepCount |-> 0, sweepLen |-> 0]
Corrupt == [present |-> TRUE, loads |-> FALSE, attrs |-> {},
            sampleRateHz |-> 0, dataRate |-> 0, sweepCount |-> 0, sweepLen |-> 0]
NoRate  == [present |-> TRUE, loads |-> TRUE, attrs |-> {},
            sampleRateHz |-> 0, dataRate |-> 0, sweepCount |-> 1, sweepLen |-> PadLen + 1]
NewAbf  == [present |-> TRUE, loads |-> TRUE, attrs |-> {"sampleRateHz", "dataRate"},
            sampleRateHz |-> 6, dataRate |-> 4, sweepCount |-> 2, sweepLen |-> PadLen + 1]
OldAbf  == [present |-> TRUE, loads |-> TRUE, attrs |-> {"dataRate"},
            sampleRateHz |-> 0, dataRate |-> 4, sweepCount |-> 1, sweepLen |-> PadLen + 2]
ShortAbf == [present |-> TRUE, loads |-> TRUE, attrs |-> {"sampleRateHz"},
            sampleRateHz |-> 3, dataRate |-> 0, sweepCount |-> 1, sweepLen |-> PadLen]

FileKinds == {Absent, Corrupt, NoRate, NewAbf, OldAbf, ShortAbf}

\* --cutoff values explored: zero, below every Nyquist frequency of the
\* recordings above, and one equal to the Nyquist frequency of the 4 Hz
\* recording, above that of the 3 Hz one and below that of the 6 Hz one
Cutoffs == {0, 1, 2}

NoRateFound == [ok |-> FALSE, rate |-> 0, exc |-> "AttributeError"]

\* get_sample_rate: sampleRateHz first, then dataRate, else AttributeError
get_sample_rate(abf) ==
    IF "sampleRateHz" \in abf.attrs THEN [ok |-> TRUE, rate |-> abf.sampleRateHz, exc |-> "none"]
    ELSE IF "dataRate" \in abf.attrs THEN [ok |-> TRUE, rate |-> abf.dataRate, exc |-> "none"]
    ELSE NoRateFound

\* ----------------------------------------------------------------- filter
\* the normalized cutoff cutoff_hz / nyquist as the fraction num / den
Normalized(cutoff_hz, fs_hz) == [num |-> 2 * cutoff_hz, den |-> fs_hz]

InUnitInterval(wn) == 0 < wn.num /\ wn.num < wn.den

NoDesign == [num |-> 0, den |-> 0]

\* f"Cutoff ({cutoff_hz} Hz) must be less than Nyquist ({nyquist:.1f} Hz)."
\* with the Nyquist frequency in tenths of a Hz
NyquistMessage(cutoff_hz, fs_hz) ==
    <<"Cutoff (", cutoff_hz, " Hz) must be less than Nyquist (", 5 * fs_hz, " Hz).">>

\* raised by scipy.signal.butter for a critical frequency outside (0, 1)
ButterMessage == <<"Digital filter critical frequencies must be 0 < Wn < 1">>

\* raised by scipy.signal.filtfilt for an input no longer than the padding
PadMessage == <<"The length of the input vector x must be greater than padlen, which is ", PadLen, ".">>

\* the comparison with > in place of >=
NyquistOnlyAbove(cutoff_hz, fs_hz) == 2 * cutoff_hz > fs_hz

\* line 31, cutoff_hz >= nyquist: the only check low_pass_filter makes itself
ExceedsNyquist(cutoff_hz, fs_hz) == 2 * cutoff_hz >= fs_hz

\* lines 30-34.  designed: the normalized cutoff handed to butter, NoDesign
\* when butter is never called; y: the filtered sequence
low_pass_filter(data, cutoff_hz, fs_hz) ==
    IF ExceedsNyquist(cutoff_hz, fs_hz)
    THEN [ok |-> FALSE, exc |-> "ValueError", msg |-> NyquistMessage(cutoff_hz, fs_hz),
          designed |-> NoDesign, filtered |-> FALSE, y |-> <<>>]
    ELSE IF ~InUnitInterval(Normalized(cutoff_hz, fs_hz))
    THEN [ok |-> FALSE, exc |-> "ValueError", msg |-> ButterMessage,
          designed |-> Normalized(cutoff_hz, fs_hz), filtered |-> FALSE, y |-> <<>>]
    ELSE IF Len(data) <= PadLen
    THEN [ok |-> FALSE, exc |-> "ValueError", msg |-> PadMessage,
          designed |-> Normalized(cutoff_hz, fs_hz), filtered |-> FALSE, y |-> <<>>]
    ELSE [ok |-> TRUE, exc |-> "none", msg |-> <<>>,
          designed |-> Normalized(cutoff_hz, fs_hz), filtered |-> TRUE,
          y |-> [i \in 1..Len(data) |-> 0]]

\* ------------------------------------------------------------------ paths
BaseDir == <<"B">>
OutDir == <<"o", "u", "t">>

\* args.base_dir / fname, outdir / name
Join(dir, name) == dir \o <<"/">> \o name

RECURSIVE LastDot(_)
\* position of the last "." of a name, 0 when there is none
LastDot(s) == IF Len(s) = 0 THEN 0
              ELSE IF s[Len(s)] = "." THEN Len(s)
              ELSE LastDot(SubSeq(s, 1, Len(s) - 1))

\* the whole final component, suffix included (abf_path.name)
StemKeepsSuffix(name) == name

\* pathlib's stem: the final component without its last suffix (a leading
\* dot starts no suffix)
Stem(name) == IF LastDot(name) <= 1 THEN name ELSE SubSeq(name, 1, LastDot(name) - 1)

\* the two formats in the opposite order
ExtsPdfFirst == << <<"p", "d", "f">>, <<"p", "n", "g">> >>

\* line 65, ["png", "pdf"]
Exts == << <<"p", "n", "g">>, <<"p", "d", "f">> >>

\* f"{stem}.filtered.{ext}"
OutName(stem, ext) == stem \o <<".", "f", "i", "l", "t", "e", "r", "e", "d", ".">> \o ext

\* ------------------------------------------------------------------ state
VARIABLES
    args,           \* parsed command line: start, end, cutoff, date_prefix
    files,          \* the recordings under base-dir, by index
    outdirExists,   \* whether the output directory exists
    written,        \* completed fig.savefig writes, in order
    openFigs,       \* figures open in pyplot's global state, by index
    pc,             \* position of main
    n,              \* loop variable of line 85
    fs,             \* fs of plot_one_abf
    sweep,          \* sweeps filtered so far in plot_one_abf
    ext,            \* position in ["png", "pdf"] of line 65
    missing_files,  \* line 84
    stdout, stderr, \* lines printed
    exitStatus,     \* Running, then the exit status of the process
    visited,        \* indices taken by the loop, in order
    invoked,        \* indices plot_one_abf was called for, in order
    calls,          \* the calls of low_pass_filter and their results
    fn_prefix, fn_number, fn_result,      \* one call of build_filename
    lp_len, lp_cutoff, lp_fs, lp_result   \* one call of low_pass_filter

batchVars == <<args, files, outdirExists, written, openFigs, pc, n, fs, sweep, ext,
               missing_files, stdout, stderr, exitStatus, visited, invoked, calls>>
nameVars == <<fn_prefix, fn_number, fn_result>>
filterVars == <<lp_len, lp_cutoff, lp_fs, lp_result>>
vars == <<batchVars, nameVars, filterVars>>

NoName == <<>>
Running == 0 - 1
NoResult == [ok |-> FALSE, exc |-> "pending", msg |-> <<>>,
             designed |-> NoDesign, filtered |-> FALSE, y |-> <<>>]

Range == args.start .. args.end

fname(k) == build_filename(args.date_prefix, k)
fpath(k) == Join(BaseDir, fname(k))

\* Path.exists of line 88
Exists(k) == files[k].present

NameIdle == fn_prefix = <<>> /\ fn_number = 0 /\ fn_result = NoName
FilterIdle == lp_len = 0 /\ lp_cutoff = 0 /\ lp_fs = 0 /\ lp_result = NoResult

BatchStart(startPc) ==
    /\ outdirExists \in BOOLEAN
    /\ written = <<>>
    /\ openFigs = {}
    /\ pc = startPc
    /\ n = args.start
    /\ fs = 0
    /\ sweep = 0
    /\ ext = 1
    /\ missing_files = <<>>
    /\ stdout = <<>>
    /\ stderr = <<>>
    /\ exitStatus = Running
    /\ visited = <<>>
    /\ invoked = <<>>
    /\ calls = <<>>

\* the state after parse_args and line 84
Init ==
    /\ \E e \in (StartIndex - 1)..(StartIndex + MaxSpan - 1), p \in Prefixes, c \in Cutoffs :
          args = [start |-> StartIndex, end |-> e, cutoff |-> c, date_prefix |-> p]
    /\ files \in [Range -> FileKinds]
    /\ BatchStart("loop")
    /\ NameIdle
    /\ FilterIdle

\* ---------------------------------------------------------------- actions
ErrorLine(k, msg) == [tag |-> "ERROR", path |-> fpath(k), msg |-> msg]
OkLine(k) == [tag |-> "OK", path |-> fpath(k)]

\* an `except` clause that lets the exception through: main is left with
\* a traceback and the process exits with status 1
ExceptReraises(stage, msg) ==
    /\ pc' = "done"
    /\ exitStatus' = 1
    /\ UNCHANGED <<stderr, n, stdout>>

\* lines 94-95: the exception of the current file is printed to stderr and
\* the loop goes on with the next index
ExceptClause(stage, msg) ==
    /\ stderr' = Append(stderr, ErrorLine(n, <<stage>> \o msg))
    /\ n' = n + 1
    /\ pc' = "loop"
    /\ UNCHANGED <<stdout, exitStatus>>

\* a missing file that ends the loop (`break`)
MissingBreaks(k) == args.end + 1

\* line 90, `continue`: the loop goes on with the next index
MissingContinues(k) == k + 1

\* lines 85-90: the loop head, the existence check, the missing branch
Resolve ==
    /\ pc = "loop"
    /\ IF n > args.end
       THEN /\ pc' = "report"
            /\ UNCHANGED <<n, missing_files, visited, invoked>>
       ELSE /\ visited' = Append(visited, n)
            /\ IF ~Exists(n)
               THEN /\ missing_files' = Append(missing_files, fpath(n))
                    /\ n' = MissingContinues(n)
                    /\ UNCHANGED <<pc, invoked>>
               ELSE /\ pc' = "open"
                    /\ invoked' = Append(invoked, n)
                    /\ UNCHANGED <<n, missing_files>>
    /\ UNCHANGED <<args, files, outdirExists, written, openFigs, fs, sweep, ext,
                   stdout, stderr, exitStatus, calls, nameVars, filterVars>>

\* lines 44-47: load the recording, read its sample rate, create the figure
OpenAbf ==
    /\ pc = "open"
    /\ IF ~files[n].loads
       THEN /\ ExceptClause("load", <<"pyabf">>)
            /\ UNCHANGED <<fs, sweep, openFigs>>
       ELSE IF ~get_sample_rate(files[n]).ok
       THEN /\ ExceptClause("rate", <<"ABF sample rate not found">>)
            /\ UNCHANGED <<fs, sweep, openFigs>>
       ELSE /\ fs' = get_sample_rate(files[n]).rate
            /\ sweep' = 0
            /\ openFigs' = openFigs \cup {n}
            /\ pc' = "sweep"
            /\ UNCHANGED <<n, stdout, stderr, exitStatus>>
    /\ UNCHANGED <<args, files, outdirExists, written, ext, missing_files,
                   visited, invoked, calls, nameVars, filterVars>>

\* lines 48-51: one iteration of the sweep loop
FilterSweep ==
    /\ pc = "sweep"
    /\ sweep < files[n].sweepCount
    /\ LET r == low_pass_filter(Samples(files[n].sweepLen), args.cutoff, fs)
       IN  /\ calls' = Append(calls, [n |-> n, sweep |-> sweep, len |-> files[n].sweepLen,
                                      cutoff |-> args.cutoff, fs |-> fs, result |-> r])
           /\ IF r.ok
              THEN /\ sweep' = sweep + 1
                   /\ UNCHANGED <<pc, n, stdout, stderr, exitStatus>>
              ELSE /\ ExceptClause("filter", r.msg)
                   /\ UNCHANGED sweep
    /\ UNCHANGED <<args, files, outdirExists, written, openFigs, fs, ext, missing_files,
                   visited, invoked, nameVars, filterVars>>

\* lines 53-63: the markers and labels, then outdir.mkdir(parents=True,
\* exist_ok=True), which the file system lets succeed or fail
MakeOutdir ==
    /\ pc = "sweep"
    /\ sweep >= files[n].sweepCount
    /\ \E ok \in BOOLEAN :
          IF ok
          THEN /\ outdirExists' = TRUE
               /\ ext' = 1
               /\ pc' = "save"
               /\ UNCHANGED <<n, stdout, stderr, exitStatus>>
          ELSE /\ ExceptClause("mkdir", <<"OSError">>)
               /\ UNCHANGED <<outdirExists, ext>>
    /\ UNCHANGED <<args, files, written, openFigs, fs, sweep, missing_files,
                   visited, invoked, calls, nameVars, filterVars>>

\* lines 65-67: one iteration of the loop over ["png", "pdf"]; fig.savefig
\* completes or raises
SaveFig ==
    /\ pc = "save"
    /\ \E ok \in BOOLEAN :
          IF ok
          THEN /\ written' = Append(written,
                      [n |-> n, dir |-> OutDir, name |-> OutName(Stem(fname(n)), Exts[ext]),
                       ext |-> Exts[ext], sweeps |-> sweep])
               /\ IF ext < Len(Exts)
                  THEN ext' = ext + 1 /\ pc' = "save"
                  ELSE ext' = ext /\ pc' = "close"
               /\ UNCHANGED <<n, stdout, stderr, exitStatus>>
          ELSE /\ ExceptClause("save", Exts[ext])
               /\ UNCHANGED <<written, ext>>
    /\ UNCHANGED <<args, files, outdirExists, openFigs, fs, sweep, missing_files,
                   visited, invoked, calls, nameVars, filterVars>>

\* line 68 and line 93: the figure is closed, plot_one_abf returns, [OK]
CloseFig ==
    /\ pc = "close"
    /\ openFigs' = openFigs \ {n}
    /\ stdout' = Append(stdout, OkLine(n))
    /\ n' = n + 1
    /\ pc' = "loop"
    /\ UNCHANGED <<args, files, outdirExists, written, fs, sweep, ext, missing_files,
                   stderr, exitStatus, visited, invoked, calls, nameVars, filterVars>>

\* an exit status that reports missing files
StatusReportsMissing(missing) == IF missing # <<>> THEN 1 ELSE 0

\* lines 103-104: main returns None and the interpreter exits with status 0
StatusOnReturn(missing) == 0

WarningBlock == <<[tag |-> "WARNING", path |-> <<>>]>>
                \o [i \in 1..Len(missing_files) |-> [tag |-> "MISSING", path |-> missing_files[i]]]

\* lines 97-100, then main returns and the interpreter exits with status 0
Report ==
    /\ pc = "report"
    /\ stdout' = IF missing_files # <<>> THEN stdout \o WarningBlock ELSE stdout
    /\ pc' = "done"
    /\ exitStatus' = StatusOnReturn(missing_files)
    /\ UNCHANGED <<args, files, outdirExists, written, openFigs, n, fs, sweep, ext,
                   missing_files, stderr, visited, invoked, calls, nameVars, filterVars>>

Next == Resolve \/ OpenAbf \/ FilterSweep \/ MakeOutdir \/ SaveFig \/ CloseFig \/ Report

Spec == Init /\ [][Next]_vars

\* main runs to its end: every step of the sequential program is taken
FairSpec == Spec /\ WF_vars(Next)

\* ------------------------------------------------- build_filename alone
NameInit ==
    /\ fn_prefix \in Prefixes
    /\ fn_number \in (0 - NameExtra)..(Pow10(Width) - 1 + NameExtra)
    /\ fn_result = NoName
    /\ args = [start |-> 0, end |-> 0 - 1, cutoff |-> 0, date_prefix |-> <<>>]
    /\ files = <<>>
    /\ BatchStart("idle")
    /\ outdirExists = FALSE
    /\ FilterIdle

BuildName ==
    /\ fn_result = NoName
    /\ fn_result' = build_filename(fn_prefix, fn_number)
    /\ UNCHANGED <<fn_prefix, fn_number, batchVars, filterVars>>

SpecName == NameInit /\ [][BuildName]_vars

\* ------------------------------------------------ low_pass_filter alone
FilterInit ==
    /\ lp_len \in 1..(PadLen + LenExtra)
    /\ lp_cutoff \in (0 - MaxCutoff)..MaxCutoff
    /\ lp_fs \in 1..MaxRate
    /\ lp_result = NoResult
    /\ args = [start |-> 0, end |-> 0 - 1, cutoff |-> 0, date_prefix |-> <<>>]
    /\ files = <<>>
    /\ BatchStart("idle")
    /\ outdirExists = FALSE
    /\ NameIdle

LowPass ==
    /\ lp_result = NoResult
    /\ lp_result' = low_pass_filter(Samples(lp_len), lp_cutoff, lp_fs)
    /\ UNCHANGED <<lp_len, lp_cutoff, lp_fs, batchVars, nameVars>>

SpecFilter == FilterInit /\ [][LowPass]_vars
\* ----------------------------------------------------------------- claims
Count(seq, key) == Cardinality({i \in 1..Len(seq) : seq[i] = key})
TagCount(seq, tag) == Cardinality({i \in 1..Len(seq) : seq[i].tag = tag})
PathCount(seq, tag, path) ==
    Cardinality({i \in 1..Len(seq) : seq[i].tag = tag /\ seq[i].path = path})

RangeSize == IF args.end >= args.start THEN args.end - args.start + 1 ELSE 0

\* the index k has been dealt with by the loop
Handled(k) == k < n \/ pc \in {"report", "done"}

\* the absent indices among those taken so far, in the order taken
AbsentVisited == SelectSeq(visited, LAMBDA k : ~files[k].present)
PresentVisited == SelectSeq(visited, LAMBDA k : files[k].present)

\* the paths listed after the [WARNING] line
PrintedMissing ==
    LET idx == {i \in 1..Len(stdout) : stdout[i].tag = "MISSING"}
    IN  SelectSeq([i \in 1..Len(stdout) |-> IF i \in idx THEN stdout[i].path ELSE <<>>],
                  LAMBDA q : q # <<>>)

\* C1: over a range with start <= end the loop takes the indices once each
\* in ascending order; plot_one_abf is called exactly for the indices whose
\* file exists; the missing list holds exactly the paths of the absent
\* indices, ascending; the warning block is printed only after the last
\* index; at the end #[OK] + #[ERROR] + #missing = end - start + 1.
C1_Partition ==
    args.start <= args.end =>
      /\ visited = [i \in 1..Len(visited) |-> args.start + i - 1]
      /\ Len(visited) <= RangeSize
      /\ invoked = PresentVisited
      /\ \A k \in Range : Count(invoked, k) = IF files[k].present /\ (k < n \/ (k = n /\ pc \notin {"loop"}) \/ pc \in {"report", "done"})
                                              THEN 1 ELSE 0
      /\ missing_files = [i \in 1..Len(AbsentVisited) |-> Join(BaseDir, build_filename(args.date_prefix, AbsentVisited[i]))]
      /\ (TagCount(stdout, "WARNING") + TagCount(stdout, "MISSING") > 0
            => pc = "done" /\ Len(visited) = RangeSize)
      /\ pc = "done" =>
            /\ Len(visited) = RangeSize
            /\ PrintedMissing = missing_files
            /\ Len(missing_files) = Cardinality({k \in Range : ~files[k].present})
            /\ TagCount(stdout, "OK") + TagCount(stderr, "ERROR") + Len(PrintedMissing)
                 = args.end - args.start + 1

\* a finished batch with one file processed, one failed and one missing
C1_Witness ==
    /\ pc = "done"
    /\ args.start < args.end
    /\ TagCount(stdout, "OK") >= 1
    /\ TagCount(stderr, "ERROR") >= 1
    /\ Len(PrintedMissing) >= 1

\* the file at index k fails whatever the file system does: it does not
\* load, has no sample rate, or its sweeps are rejected by the filter
FailsByItself(k) ==
    \/ ~files[k].loads
    \/ ~get_sample_rate(files[k]).ok
    \/ ~low_pass_filter(Samples(files[k].sweepLen), args.cutoff,
                        get_sample_rate(files[k]).rate).ok

Errors(k) == LET path == fpath(k) IN PathCount(stderr, "ERROR", path)
Oks(k) == LET path == fpath(k) IN PathCount(stdout, "OK", path)

\* C2: a failure of a present file at any step of plot_one_abf stays in its
\* iteration: the file gets exactly one [ERROR] line and no [OK] line, the
\* batch is not terminated, and every index is handled according to its own
\* file alone, whatever happened to the files before it.
C2_Isolation ==
    /\ exitStatus # 1
    /\ Len(stderr) > 0 /\ pc = "done" => Len(visited) = RangeSize
    /\ \A k \in Range :
          LET path == fpath(k)
              errors == PathCount(stderr, "ERROR", path)
              oks == PathCount(stdout, "OK", path)
              fails == FailsByItself(k)
          IN  /\ errors + oks <= 1
              /\ ~files[k].present => errors + oks = 0
              /\ files[k].present /\ Handled(k) => errors + oks = 1
              /\ files[k].present /\ Handled(k) /\ fails => errors = 1 /\ oks = 0
              /\ oks = 1 => ~fails
              /\ errors = 1 /\ k < args.end /\ pc = "done" => Count(visited, k + 1) = 1

\* a failed file followed by a file that was processed
C2_Witness ==
    \E k \in Range : /\ k < args.end
                     /\ Errors(k) = 1
                     /\ Oks(k + 1) = 1

\* the outputs written for index k, by extension, in the order written
Outputs(k) ==
    LET mine == SelectSeq(written, LAMBDA w : w.n = k)
    IN  [i \in 1..Len(mine) |-> mine[i].ext]

\* the [ERROR] lines of index k whose failure was at the given step
StageErrors(k, stage) ==
    LET path == fpath(k)
    IN  {i \in 1..Len(stderr) : stderr[i].path = path /\ stderr[i].msg[1] = stage}

\* C3: a call of low_pass_filter with fs > 0 and cutoff >= fs/2 (equality
\* included) fails with the configuration error that names the cutoff and
\* the Nyquist frequency, before butter or filtfilt is called; in the batch
\* it ends the current file only: that file gets its [ERROR] line with this
\* message, no further sweep of it is filtered, nothing is written for it,
\* and the loop goes on to the end of the range.
C3_NyquistRejected ==
    \A i \in 1..Len(calls) :
       LET c == calls[i]
       IN  c.fs > 0 /\ 2 * c.cutoff >= c.fs =>
             /\ ~c.result.ok
             /\ c.result.exc = "ValueError"
             /\ Len(c.result.msg) = 5
             /\ c.result.msg[2] = c.cutoff
             /\ c.result.msg[4] = 5 * c.fs
             /\ c.result.designed = NoDesign
             /\ ~c.result.filtered
             /\ \A j \in 1..Len(calls) : j > i => calls[j].n # c.n
             /\ Outputs(c.n) = <<>>
             /\ Oks(c.n) = 0
             /\ \E e \in 1..Len(stderr) :
                   /\ stderr[e].path = fpath(c.n)
                   /\ stderr[e].msg = <<"filter">> \o c.result.msg
             /\ exitStatus # 1
             /\ n > c.n
             /\ pc = "done" => Len(visited) = RangeSize

\* a cutoff exactly at the Nyquist frequency was rejected and a later file
\* of the batch was then processed
C3_Witness ==
    \E i \in 1..Len(calls) :
       /\ 2 * calls[i].cutoff = calls[i].fs
       /\ ~calls[i].result.ok
       /\ \E k \in Range : k > calls[i].n /\ Handled(k) /\ files[k].present

\* C4: every call whose cutoff violates 0 < fc < fs/2, a cutoff <= 0
\* included, is rejected by the configuration error that names the cutoff
\* and the Nyquist frequency, and never reaches butter with a normalized
\* cutoff outside (0, 1).
C4_WholePrecondition ==
    lp_result # NoResult /\ ~(0 < lp_cutoff /\ 2 * lp_cutoff < lp_fs) =>
       /\ ~lp_result.ok
       /\ lp_result.msg = NyquistMessage(lp_cutoff, lp_fs)
       /\ lp_result.designed = NoDesign

\* C5: for an index in 0..9999 the name is the prefix, "_", exactly four
\* decimal digits whose value is the index, ".abf"; so the index can be read
\* back from the name and distinct indices give distinct names
\* (77 -> 0077, 7 -> 0007).
C5_FourDigits ==
    fn_result # NoName /\ fn_number \in 0..(Pow10(Width) - 1) =>
       LET p == Len(fn_prefix)
           field == SubSeq(fn_result, p + 2, p + 5)
       IN  /\ Len(fn_result) = p + 9
           /\ SubSeq(fn_result, 1, p) = fn_prefix
           /\ fn_result[p + 1] = "_"
           /\ \A i \in 1..4 : DigitVal(field[i]) < 10
           /\ DigitsValue(field) = fn_number
           /\ SubSeq(fn_result, p + 6, p + 9) = <<".", "a", "b", "f">>
           /\ fn_number = 77 => field = <<"0", "0", "7", "7">>
           /\ fn_number = 7 => field = <<"0", "0", "0", "7">>

\* the name of index 77 has been built
C5_Witness ==
    /\ fn_number = 77
    /\ fn_result = fn_prefix \o <<"_", "0", "0", "7", "7", ".", "a", "b", "f">>

\* C6: for every N >= 1 and every valid (fs, fc), 0 < fc < fs/2, the call
\* returns a sequence of length N; short sweeps are filtered, not rejected.
C6_AnyLength ==
    lp_result # NoResult /\ lp_len >= 1 /\ 0 < lp_cutoff /\ 2 * lp_cutoff < lp_fs =>
       /\ lp_result.ok
       /\ Len(lp_result.y) = lp_len

\* C7: main terminates, having taken each index once; the warning block is
\* printed if and only if a file was missing; the exit status is success
\* whatever the number of failed or missing files.
C7_Terminates ==
    /\ <>(pc = "done")
    /\ [](pc = "done" =>
            /\ exitStatus = 0
            /\ Len(visited) = RangeSize
            /\ \A k \in Range : Count(visited, k) = 1
            /\ TagCount(stdout, "WARNING") = (IF \E k \in Range : ~files[k].present THEN 1 ELSE 0)
            /\ TagCount(stdout, "MISSING") = Cardinality({k \in Range : ~files[k].present}))
    /\ [](pc # "done" => exitStatus = Running)

\* main has returned after a batch with a missing file and a failed file
C7_Witness ==
    /\ pc = "done"
    /\ exitStatus = 0
    /\ TagCount(stdout, "MISSING") >= 1
    /\ TagCount(stderr, "ERROR") >= 1

\* the input file's base name without its extension
BaseNameNoExt(k) == LET name == fname(k) IN SubSeq(name, 1, Len(name) - Len(Suffix))

\* C8: a file with an [OK] line has exactly two files written in its
\* iteration, {stem}.filtered.png and {stem}.filtered.pdf, in the output
\* directory, which exists by then; [OK] is not printed when a write did not
\* complete, and no file of another name is written.
C8_TwoOutputs ==
    /\ \A k \in Range :
          Oks(k) >= 1 =>
             LET base == BaseNameNoExt(k)
             IN  /\ outdirExists
                 /\ Cardinality({i \in 1..Len(written) : written[i].n = k}) = 2
                 /\ \E i, j \in 1..Len(written) :
                       /\ written[i].n = k
                       /\ written[i].name = base \o <<".", "f", "i", "l", "t", "e", "r", "e", "d", ".", "p", "n", "g">>
                       /\ written[j].n = k
                       /\ written[j].name = base \o <<".", "f", "i", "l", "t", "e", "r", "e", "d", ".", "p", "d", "f">>
    /\ \A i \in 1..Len(written) :
          LET base == BaseNameNoExt(written[i].n)
          IN  /\ written[i].dir = OutDir
              /\ outdirExists
              /\ \E e \in {<<"p", "n", "g">>, <<"p", "d", "f">>} :
                    written[i].name = base \o <<".", "f", "i", "l", "t", "e", "r", "e", "d", ".">> \o e

\* a file was processed and reported with [OK]
C8_Witness ==
    \E k \in Range : Oks(k) = 1 /\ Len(Outputs(k)) = 2

\* C9: at the start of every iteration of the loop no figure of an earlier
\* file is open in pyplot's global state.
C9_NoFigureLeft ==
    pc = "loop" => openFigs = {}

\* C10: nothing is written for a file before all its sweeps are filtered,
\* and the PNG is written before the PDF: the outputs of a file are none,
\* the PNG, or the PNG then the PDF; a failure while loading, reading the
\* rate or filtering leaves nothing written; a failure while saving the PDF
\* leaves the PNG in place.
C10_WriteOrder ==
    /\ \A i \in 1..Len(written) :
          /\ written[i].sweeps = files[written[i].n].sweepCount
          /\ Cardinality({j \in 1..Len(calls) : calls[j].n = written[i].n /\ calls[j].result.ok})
               = files[written[i].n].sweepCount
    /\ \A k \in Range :
          LET path == fpath(k)
              outs == Outputs(k)
              errs == {i \in 1..Len(stderr) : stderr[i].path = path}
          IN  /\ outs \in {<<>>, << <<"p", "n", "g">> >>, << <<"p", "n", "g">>, <<"p", "d", "f">> >>}
              /\ \A i \in errs :
                    /\ stderr[i].msg[1] \in {"load", "rate", "filter", "mkdir"} => outs = <<>>
                    /\ stderr[i].msg[1] = "save" /\ stderr[i].msg[3] = "n" => outs = <<>>
                    /\ stderr[i].msg[1] = "save" /\ stderr[i].msg[3] = "d"
                         => outs = << <<"p", "n", "g">> >>

\* saving the PDF failed after the PNG was written, and the next index has
\* been reached
C10_Witness ==
    \E k \in Range :
       /\ Handled(k)
       /\ \E i \in StageErrors(k, "save") : stderr[i].msg[3] = "d"
       /\ Outputs(k) = << <<"p", "n", "g">> >>

====
